---- MODULE Spec2Model ----
(***************************************************************************)
(* A model of siderite: the random-label correlation slab                  *)
(* (src/src/randomslab.rs) and the connection actor that uses it           *)
(* (src/src/connection.rs).                                                *)
(*                                                                         *)
(* Strings that the code parses or compares (slab keys, correlation ids)   *)
(* are sequences of one-character strings, so that splitting, parsing and  *)
(* formatting are computed as the code computes them.  An Option<T> is a   *)
(* sequence of length 0 (None) or 1 (Some).                                *)
(***************************************************************************)
EXTENDS Naturals, Sequences, FiniteSets

VARIABLES
    pending,    \* the slab: Slab<T>(slab::Slab<(Label, T)>)
    live,       \* slab harness: token -> value, for tokens inserted and not removed since
    removed,    \* slab harness: the tokens a remove has returned a value for
    last,       \* slab harness: the last slab operation, its key and what it returned
    pc,         \* where connect_with_websocket / the actor task is
    trace,      \* what the actor has done, oldest first
    upq,        \* the request channel (up_tx -> up_rx): requests not yet taken
    downq,      \* the inbound event channel (down_tx -> down_rx): events not yet received
    recvd,      \* the events recv has returned to the consumer, oldest first
    ended,      \* recv has returned None
    api,        \* the call / subscribe / unsubscribe invocations made, oldest first
    dropped,    \* None, or Some(n): the Connection (its event receiver and its own
                \* Handle) was dropped when the actor had done n things
    clones,     \* some clone of the Handle, made by Connection::handle, is alive
    codec       \* codec harness: a message, its encoding, and the decoding of that

slabVars == << live, removed, last >>

actorVars == << pc, trace, upq, downq, recvd, ended, api, dropped, clones >>

vars ==
    << pending, live, removed, last, pc, trace, upq, downq, recvd, ended, api, dropped,
       clones, codec >>

----------------------------------------------------------------------------
(* Option and character helpers *)

None == <<>>

Some(x) == <<x>>

IsSome(o) == Len(o) = 1

Digits == <<"0", "1", "2", "3", "4", "5", "6", "7", "8", "9">>

IsDigit(c) == \E i \in 1..10 : Digits[i] = c

DigitVal(c) == (CHOOSE i \in 1..10 : Digits[i] = c) - 1

\* the decimal digits of usize::MAX on a 64-bit target, 18446744073709551615
UsizeMaxDigits ==
    << "1", "8", "4", "4", "6", "7", "4", "4", "0", "7",
       "3", "7", "0", "9", "5", "5", "1", "6", "1", "5" >>

RECURSIVE StripZeros(_)
StripZeros(ds) ==
    IF Len(ds) > 1 /\ ds[1] = "0" THEN StripZeros(Tail(ds)) ELSE ds

\* a <= b for two digit strings of the same length
DigitsLeq(a, b) ==
    \/ a = b
    \/ \E i \in 1..Len(a) :
          /\ DigitVal(a[i]) < DigitVal(b[i])
          /\ \A j \in 1..(i - 1) : a[j] = b[j]

\* the digit string denotes a value that fits a usize
FitsUsize(ds) ==
    LET d == StripZeros(ds)
    IN  \/ Len(d) < Len(UsizeMaxDigits)
        \/ Len(d) = Len(UsizeMaxDigits) /\ DigitsLeq(d, UsizeMaxDigits)

----------------------------------------------------------------------------
(* randomslab.rs *)

\* type Label = [u8; 8]
LabelLen == 8

\* a sample of the values fastrand::alphabetic() draws for one byte
Alphabetic == {"a", "b"}

RepLabel(c) == [i \in 1..LabelLen |-> c]

\* random_label(): every byte is drawn independently; the model draws from
\* this sample of [1..LabelLen -> Alphabetic]
Labels == { RepLabel("a"), [RepLabel("a") EXCEPT ![LabelLen] = "b"] }

\* "{}" of a usize: decimal, no sign, no leading zeros
RECURSIVE FormatUsize(_)
FormatUsize(n) ==
    IF n < 10 THEN <<Digits[n + 1]>>
    ELSE FormatUsize(n \div 10) \o <<Digits[(n % 10) + 1]>>

\* the value of a non-empty string of decimal digits
RECURSIVE DigitsValue(_)
DigitsValue(ds) ==
    IF Len(ds) = 1 THEN DigitVal(ds[1])
    ELSE 10 * DigitsValue(SubSeq(ds, 1, Len(ds) - 1)) + DigitVal(ds[Len(ds)])

\* str::parse::<usize>(): an optional leading '+', then one or more decimal
\* digits whose value fits a usize; anything else is an error (None)
ParseUsize(s) ==
    IF Len(s) = 0 THEN None
    ELSE IF Len(s) = 1 /\ s[1] \in {"+", "-"} THEN None
    ELSE LET ds == IF s[1] = "+" THEN Tail(s) ELSE s
         IN  IF \A i \in 1..Len(ds) : IsDigit(ds[i])
             THEN IF FitsUsize(ds) THEN Some(DigitsValue(ds)) ELSE None
             ELSE None

\* s.splitn(2, ':'): the pieces, at most two; the second keeps every later ':'
Splitn2(s) ==
    IF \E i \in 1..Len(s) : s[i] = ":"
    THEN LET p == CHOOSE i \in 1..Len(s) :
                      s[i] = ":" /\ \A j \in 1..(i - 1) : s[j] # ":"
         IN  << SubSeq(s, 1, p - 1), SubSeq(s, p + 1, Len(s)) >>
    ELSE << s >>

\* split2: Some((index, label)) or None
split2(s) ==
    LET split == Splitn2(s)
    IN  IF Len(split) < 2 THEN None
        ELSE IF Len(split) > 2 THEN None
        ELSE LET one == ParseUsize(split[1])
             IN  IF one = None THEN None
                 ELSE Some(<< one[1], split[2] >>)

(* slab::Slab<(Label, T)>: a vector of entries, Occupied(label, val) or     *)
(* Vacant(next), and the head `next` of the free list.  Index n of the     *)
(* code is element n + 1 of the sequence.                                  *)
Occupied(label, t) == [occ |-> TRUE, label |-> label, val |-> t]

Vacant(n) == [occ |-> FALSE, next |-> n]

\* Slab::new
SlabNew == [entries |-> <<>>, next |-> 0]

\* slab::Slab::insert: the key used, and the slab after
VecKey(s) == s.next

\* (mutant) the free-list head is not restored from the vacant entry
VecInsertNextLost(s, e) ==
    LET key == s.next
    IN  IF key = Len(s.entries)
        THEN [entries |-> Append(s.entries, e), next |-> key + 1]
        ELSE [entries |-> [s.entries EXCEPT ![key + 1] = e], next |-> key + 1]

VecInsert(s, e) ==
    LET key == s.next
    IN  IF key = Len(s.entries)
        THEN [entries |-> Append(s.entries, e), next |-> key + 1]
        ELSE [entries |-> [s.entries EXCEPT ![key + 1] = e],
              next |-> s.entries[key + 1].next]

\* slab::Slab::get
VecGet(s, n) ==
    IF n < Len(s.entries) /\ s.entries[n + 1].occ
    THEN Some(s.entries[n + 1]) ELSE None

\* slab::Slab::remove of an occupied key
VecRemove(s, n) ==
    [entries |-> [s.entries EXCEPT ![n + 1] = Vacant(s.next)], next |-> n]

\* Slab::insert with the label random_label() drew: the token returned
InsertToken(s, label) == FormatUsize(VecKey(s)) \o <<":">> \o label

\* Slab::insert with the label random_label() drew: the slab after
InsertSlab(s, label, t) == VecInsert(s, Occupied(label, t))

\* Slab::get
SlabGet(s, key) ==
    LET k == split2(key)
    IN  IF k = None THEN None
        ELSE LET entry == VecGet(s, k[1][1])
             IN  IF entry = None THEN None
                 ELSE IF entry[1].label = k[1][2] THEN Some(entry[1].val)
                 ELSE None

\* (mutant) the label is not compared
SlabRemoveRetAnyLabel(s, key) ==
    LET k == split2(key)
    IN  IF k = None THEN None
        ELSE LET entry == VecGet(s, k[1][1])
             IN  IF entry = None THEN None ELSE Some(entry[1].val)

\* Slab::remove: what it returns
SlabRemoveRet(s, key) ==
    LET k == split2(key)
    IN  IF k = None THEN None
        ELSE LET entry == VecGet(s, k[1][1])
             IN  IF entry = None THEN None
                 ELSE IF entry[1].label = k[1][2] THEN Some(entry[1].val)
                 ELSE None

\* Slab::remove: the slab after
SlabRemove(s, key) ==
    LET k == split2(key)
    IN  IF SlabRemoveRet(s, key) = None THEN s
        ELSE VecRemove(s, k[1][1])

----------------------------------------------------------------------------
(* The slab on its own: any sequence of insert / get / remove, as in       *)
(* test_random_slab.                                                       *)

\* at most this many slots are ever allocated in the vector
MaxSlots == 2

\* the values test_random_slab stores
Vals == {"abc", "def"}

NoOp == [op |-> "new", key |-> <<>>, ret |-> None, same |-> TRUE, bad |-> FALSE]

\* ---- the classes of bad keys, read off the key's text ----

HasSep(k) == \E i \in 1..Len(k) : k[i] = ":"

FirstSep(k) == CHOOSE i \in 1..Len(k) : k[i] = ":" /\ \A j \in 1..(i - 1) : k[j] # ":"

IndexPart(k) == SubSeq(k, 1, FirstSep(k) - 1)

LabelPart(k) == SubSeq(k, FirstSep(k) + 1, Len(k))

\* the index part is a decimal numeral, with or without a '+' sign
NumericIndex(k) ==
    LET ip == IndexPart(k)
        ds == IF Len(ip) > 0 /\ ip[1] = "+" THEN Tail(ip) ELSE ip
    IN  Len(ds) > 0 /\ \A i \in 1..Len(ds) : IsDigit(ds[i])

IndexDigits(k) ==
    LET ip == IndexPart(k)
    IN  StripZeros(IF ip[1] = "+" THEN Tail(ip) ELSE ip)

\* the slot the key's numeral names is outside the vector, or vacant
OutOfRangeOrVacant(s, k) ==
    \/ Len(IndexDigits(k)) > 2
    \/ DigitsValue(IndexDigits(k)) >= Len(s.entries)
    \/ ~ s.entries[DigitsValue(IndexDigits(k)) + 1].occ

BadKey(s, k) ==
    \/ ~ HasSep(k)                                      \* missing separator
    \/ HasSep(k) /\ ~ NumericIndex(k)                   \* non-numeric index
    \/ HasSep(k) /\ HasSep(LabelPart(k))                \* extra separators
    \/ HasSep(k) /\ Len(LabelPart(k)) # LabelLen        \* wrong-length label
    \/ HasSep(k) /\ NumericIndex(k) /\ OutOfRangeOrVacant(s, k)
    \/ /\ HasSep(k) /\ NumericIndex(k) /\ ~ OutOfRangeOrVacant(s, k)
       /\ s.entries[DigitsValue(IndexDigits(k)) + 1].label # LabelPart(k)

\* ---- the keys the harness tries ----

\* every token insert can return while at most MaxSlots slots exist
Tokens == { FormatUsize(i) \o <<":">> \o l : i \in 0..(MaxSlots - 1), l \in Labels }

\* the tokens insert has returned so far
Issued == DOMAIN live \cup removed

\* the same slot and label, the index written differently
Respelled(t) == { <<"+">> \o t, <<"0">> \o t }

MalformedKeys ==
    { <<>>,
      <<"n", "o", "n", "s", "e", "n", "s", "e">>,
      <<"0">>,
      <<"0", ":", "n", "o", "n", "s", "e", "n", "s", "e">>,
      <<":">> \o RepLabel("a"),
      <<"x", ":">> \o RepLabel("a"),
      <<"-", "0", ":">> \o RepLabel("a"),
      <<"+", ":">> \o RepLabel("a"),
      <<"0", "x", ":">> \o RepLabel("a"),
      <<"0", ":">> \o RepLabel("a") \o <<":">>,
      <<"0", ":", ":">> \o SubSeq(RepLabel("a"), 1, LabelLen - 1),
      <<"0", ":", "a", "a", "a", ":">> \o SubSeq(RepLabel("a"), 1, LabelLen - 4),
      <<"0", ":">> \o SubSeq(RepLabel("a"), 1, LabelLen - 1),
      <<"0", ":">> \o RepLabel("a") \o <<"a">>,
      <<"0", ":">>,
      <<"7", ":">> \o RepLabel("a"),
      [i \in 1..20 |-> "9"] \o <<":">> \o RepLabel("a") }

AllKeys == Tokens \cup UNION { Respelled(t) : t \in Tokens } \cup MalformedKeys

\* nothing is connected: the slab is exercised on its own
NoActor ==
    /\ pc = "connect"
    /\ trace = <<>>
    /\ upq = <<>>
    /\ downq = <<>>
    /\ recvd = <<>>
    /\ ended = FALSE
    /\ api = <<>>
    /\ dropped = None
    /\ clones = FALSE
    /\ codec = [st |-> "idle"]

SlabInit ==
    /\ pending = SlabNew
    /\ live = <<>>
    /\ removed = {}
    /\ last = NoOp
    /\ NoActor

\* let l = slab.insert(v), random_label() having drawn `label`
DoInsert(v, label) ==
    /\ VecKey(pending) < MaxSlots
    /\ pending' = InsertSlab(pending, label, v)
    /\ last' = [op |-> "insert", key |-> InsertToken(pending, label), ret |-> None,
                same |-> FALSE, bad |-> FALSE]

\* slab.get(key)
DoGet(key) ==
    /\ last' = [op |-> "get", key |-> key, ret |-> SlabGet(pending, key),
                same |-> TRUE, bad |-> BadKey(pending, key)]
    /\ UNCHANGED pending

\* slab.remove(key)
DoRemove(key) ==
    /\ pending' = SlabRemove(pending, key)
    /\ last' = [op |-> "remove", key |-> key, ret |-> SlabRemoveRet(pending, key),
                same |-> (pending' = pending), bad |-> BadKey(pending, key)]

\* operations on any key
KInsert(v, label) == DoInsert(v, label) /\ UNCHANGED << live, removed, actorVars, codec >>

KGet(key) == DoGet(key) /\ UNCHANGED << live, removed, actorVars, codec >>

KRemove(key) == DoRemove(key) /\ UNCHANGED << live, removed, actorVars, codec >>

SlabNext ==
    \/ \E v \in Vals, l \in Labels : KInsert(v, l)
    \/ \E k \in AllKeys : KGet(k)
    \/ \E k \in AllKeys : KRemove(k)

SlabSpec == SlabInit /\ [][SlabNext]_vars

\* operations on the tokens insert has returned, live or stale, with the
\* caller's record of which tokens it holds and which it has removed
TInsert(v, label) ==
    LET tok == InsertToken(pending, label)
    IN  /\ DoInsert(v, label)
        /\ live' = [t \in DOMAIN live \cup {tok} |-> IF t = tok THEN v ELSE live[t]]
        /\ UNCHANGED << removed, actorVars, codec >>

TGet(key) == DoGet(key) /\ UNCHANGED << live, removed, actorVars, codec >>

TRemove(key) ==
    /\ DoRemove(key)
    /\ IF SlabRemoveRet(pending, key) # None
       THEN /\ live' = [t \in DOMAIN live \ {key} |-> live[t]]
            /\ removed' = removed \cup {key}
       ELSE UNCHANGED << live, removed >>
    /\ UNCHANGED << actorVars, codec >>

TokenNext ==
    \/ \E v \in Vals, l \in Labels : TInsert(v, l)
    \/ \E k \in Issued : TGet(k)
    \/ \E k \in Issued : TRemove(k)

TokenSpec == SlabInit /\ [][TokenNext]_vars

----------------------------------------------------------------------------
(* Claims about the slab *)

\* C3: a token returned by insert(v) makes get return v every time, and the
\* first remove return v, for as long as it has not been removed, whatever
\* other tokens are inserted or removed in between.
C3_LiveTokenYields ==
    /\ \A t \in DOMAIN live :
          /\ SlabGet(pending, t) = Some(live[t])
          /\ SlabRemoveRet(pending, t) = Some(live[t])
    /\ (last.op = "get" /\ last.key \in DOMAIN live) => last.ret = Some(live[last.key])

\* a get of a live token, after another token was removed and its slot reused
C3_Witness ==
    /\ last.op = "get"
    /\ last.key \in DOMAIN live
    /\ removed # {}
    /\ Cardinality(DOMAIN live) = MaxSlots

\* C4 (as claimed): once a token has been removed, get and remove with it
\* never again yield a value, also after its slot was reused.
C4_StaleTokenMisses ==
    \A t \in removed :
        /\ SlabGet(pending, t) = None
        /\ SlabRemoveRet(pending, t) = None

\* C5: get and remove miss, and leave the slab as it was, for every key with
\* a missing separator, a non-numeric index, extra separators, a wrong-length
\* label, an out-of-range or vacant index, or a label other than the slot's.
C5_BadKeyMisses ==
    /\ (last.op \in {"get", "remove"} /\ last.bad) => (last.ret = None /\ last.same)
    /\ \A k \in AllKeys :
          BadKey(pending, k) =>
              /\ SlabGet(pending, k) = None
              /\ SlabRemoveRet(pending, k) = None
              /\ SlabRemove(pending, k) = pending

\* a remove with a key that names an occupied slot under another label
C5_Witness ==
    /\ last.op = "remove"
    /\ last.bad
    /\ HasSep(last.key) /\ NumericIndex(last.key)
    /\ ~ OutOfRangeOrVacant(pending, last.key)
    /\ Len(LabelPart(last.key)) = LabelLen

\* the indices of the occupied slab entries
OccupiedSlots == { n \in 1..Len(pending.entries) : pending.entries[n].occ }

\* the key under which the entry at n is reached
SlotId(n) == FormatUsize(n - 1) \o <<":">> \o pending.entries[n].label

\* C20 (as claimed): an occupied slot is hit by exactly one key string, the
\* token insert returned for it; no other string addressing the same index,
\* such as the token with its index written with a leading '+' or with
\* leading zeros, returns or removes the slot's value.
C20_TokenExact ==
    /\ \A n \in OccupiedSlots :
          \A k \in AllKeys :
              (SlabGet(pending, k) # None /\ split2(k)[1][1] = n - 1) => k = SlotId(n)
    /\ (last.op \in {"get", "remove"} /\ last.ret # None) => last.key \in Tokens

----------------------------------------------------------------------------
(* protocol.rs: the messages, and the decoding of an inbound frame          *)
(*                                                                          *)
(* A JSON object is a record; a field that is absent is not in its domain.  *)
(* Strings that are correlation or subscription ids are character           *)
(* sequences, other strings and JSON values are opaque.                     *)

\* Value::Null; a JSON value is a sequence of strings, and no other one equals this
JNull == <<"null">>

\* two JSON values that are not null
JOk == <<"ok">>

JBoom == <<"boom">>

Str42 == <<"4", "2">>

Sub1 == <<"s", "u", "b", "1">>

Ghost == <<"g", "h", "o", "s", "t">>

\* enum ServerMessage, #[serde(tag = "msg", rename_all = "camelCase")]
ServerTags ==
    { "connected", "failed", "ping", "pong", "result", "nosub", "updated", "added",
      "changed", "removed", "ready", "addedBefore", "movedBefore" }

\* the fields of a variant that are not Option
RequiredFields(tag) ==
    CASE tag = "connected" -> {"session"}
      [] tag = "failed" -> {"version"}
      [] tag = "result" -> {"id"}
      [] tag = "nosub" -> {"id"}
      [] tag = "updated" -> {"methods"}
      [] tag \in {"added", "changed", "removed", "addedBefore"} -> {"collection", "id"}
      [] tag = "ready" -> {"subs"}
      [] OTHER -> {}

\* the Option fields of a variant: None when the field is missing
OptionFields(tag) ==
    CASE tag \in {"ping", "pong"} -> {"id"}
      [] tag = "result" -> {"result", "error"}
      [] tag = "nosub" -> {"error"}
      [] tag = "added" -> {"fields"}
      [] tag = "changed" -> {"fields", "cleared"}
      [] tag = "addedBefore" -> {"fields", "before"}
      [] tag = "movedBefore" -> {"before"}
      [] OTHER -> {}

\* the required fields whose values are written as character sequences, so
\* that a null in their place can be told; the other required fields do not
\* hold null in the frames considered
NullChecked == {"id", "collection"}

\* deserializing the fields of a struct or struct variant from the object j:
\* a required field must be present and not null; an Option field is None
\* when it is missing or null
DecodeFields(j, req, opt) ==
    IF /\ req \subseteq DOMAIN j
       /\ \A f \in req \cap NullChecked : j[f] # JNull
    THEN Some([f \in (DOMAIN j \cap {"msg"}) \cup req \cup opt |->
                  IF f \in opt
                  THEN (IF f \in DOMAIN j /\ j[f] # JNull THEN Some(j[f]) ELSE None)
                  ELSE j[f]])
    ELSE None

\* serde_json::from_str::<ServerMessage>: Some(message), or None for an error
DecodeServer(j) ==
    IF "msg" \in DOMAIN j /\ j["msg"] \in ServerTags
    THEN DecodeFields(j, RequiredFields(j["msg"]), OptionFields(j["msg"]))
    ELSE None

\* what ws_down yields: tungstenite text (JSON or not), another kind of
\* message, or a transport error
TextItem(j) == [ws |-> "text", json |-> j]

NotJsonItem == [ws |-> "text", raw |-> "not json"]

BinaryItem == [ws |-> "binary"]

ErrorItem == [ws |-> "error"]

\* the ws_down.map closure: Ok(ServerMessage) as Some, Err as None
DecodeItem(item) ==
    IF item.ws = "text" /\ "json" \in DOMAIN item THEN DecodeServer(item.json)
    ELSE None

\* enum ClientMessage
ConnectMsg == [msg |-> "connect", version |-> "1", support |-> <<"1">>, session |-> None]

\* a Pong that does not echo the id of the Ping
PongMsgNoId(id) == [msg |-> "pong", id |-> None]

PongMsg(id) == [msg |-> "pong", id |-> id]

MethodMsg(id, name, params) ==
    [msg |-> "method", id |-> id, method |-> name, params |-> params]

SubMsg(id, name, params) == [msg |-> "sub", id |-> id, name |-> name, params |-> params]

UnsubMsg(id) == [msg |-> "unsub", id |-> id]

\* (mutant) a response with both fields counted as a success
IntoMethodResultPreferResult(r) ==
    IF IsSome(r["result"]) THEN [ok |-> TRUE, v |-> r["result"][1]]
    ELSE IF IsSome(r["error"]) THEN [ok |-> FALSE, v |-> r["error"][1]]
    ELSE [ok |-> TRUE, v |-> JNull]

\* impl Into<MethodResult> for MethodResponse
IntoMethodResult(r) ==
    IF IsSome(r["error"]) THEN [ok |-> FALSE, v |-> r["error"][1]]
    ELSE [ok |-> TRUE, v |-> IF IsSome(r["result"]) THEN r["result"][1] ELSE JNull]

----------------------------------------------------------------------------
(* protocol.rs: encoding, and the round trip of tests::check_message        *)

\* enum ClientMessage, #[serde(tag = "msg", rename_all = "camelCase")]
ClientTags == { "connect", "ping", "pong", "method", "sub", "unsub" }

ClientRequired(tag) ==
    CASE tag = "connect" -> {"version", "support"}
      [] tag = "method" -> {"id", "method", "params"}
      [] tag = "sub" -> {"id", "name", "params"}
      [] tag = "unsub" -> {"id"}
      [] OTHER -> {}

ClientOption(tag) ==
    CASE tag = "connect" -> {"session"}
      [] tag \in {"ping", "pong"} -> {"id"}
      [] OTHER -> {}

\* the Option fields with #[serde(skip_serializing_if = "Option::is_none")]
ClientSkip(tag) == ClientOption(tag)

ServerSkip(tag) ==
    CASE tag \in {"ping", "pong"} -> {"id"}
      [] tag = "result" -> {"result", "error"}
      [] tag = "nosub" -> {"error"}
      [] tag = "changed" -> {"fields", "cleared"}
      [] tag = "addedBefore" -> {"fields"}
      [] OTHER -> {}

\* serde_json::to_string of a struct or struct variant: a None field is left
\* out when it is marked skip_serializing_if and is written as null otherwise;
\* Some(v) is written as v
EncodeFields(m, opt, skip) ==
    LET written == { f \in DOMAIN m : ~ (f \in opt /\ f \in skip /\ m[f] = None) }
    IN  [f \in written |->
            IF f \in opt THEN (IF m[f] = None THEN JNull ELSE m[f][1]) ELSE m[f]]

EncodeServer(m) == EncodeFields(m, OptionFields(m["msg"]), ServerSkip(m["msg"]))

EncodeClient(m) == EncodeFields(m, ClientOption(m["msg"]), ClientSkip(m["msg"]))

\* serde_json::from_str::<ClientMessage>
DecodeClient(j) ==
    IF "msg" \in DOMAIN j /\ j["msg"] \in ClientTags
    THEN DecodeFields(j, ClientRequired(j["msg"]), ClientOption(j["msg"]))
    ELSE None

\* struct Timestamp { #[serde(rename = "$date")] millis: Option<u64> }
EncodeTimestamp(t) == [f \in {"$date"} |-> IF t.millis = None THEN JNull ELSE t.millis[1]]

DecodeTimestamp(j) ==
    Some([millis |-> IF "$date" \in DOMAIN j /\ j["$date"] # JNull
                     THEN Some(j["$date"]) ELSE None])

\* struct MethodResponse on its own, without the msg tag of ServerMessage::Result
EncodeResponse(r) == EncodeFields(r, {"result", "error"}, {"result", "error"})

DecodeResponse(j) == DecodeFields(j, {"id"}, {"result", "error"})

Encode(ty, m) ==
    CASE ty = "server" -> EncodeServer(m)
      [] ty = "client" -> EncodeClient(m)
      [] ty = "response" -> EncodeResponse(m)
      [] OTHER -> EncodeTimestamp(m)

Decode(ty, j) ==
    CASE ty = "server" -> DecodeServer(j)
      [] ty = "client" -> DecodeClient(j)
      [] ty = "response" -> DecodeResponse(j)
      [] OTHER -> DecodeTimestamp(j)

\* the Option fields of a value of the type
OptionOf(ty, m) ==
    CASE ty = "server" -> OptionFields(m["msg"])
      [] ty = "client" -> ClientOption(m["msg"])
      [] ty = "response" -> {"result", "error"}
      [] OTHER -> {"millis"}

\* the name a field has in the encoded object
WireName(f) == IF f = "millis" THEN "$date" ELSE f

\* the field values messages are built from
Strings == { Str42, Sub1 }

OptStrings == { None, Some(Str42) }

\* Option<Value>: absent, an explicit null, another value
OptValues == { None, Some(JNull), Some(JOk) }

OptStringVecs == { None, Some(<<"a", "b">>) }

ParamVecs == { <<>>, <<"bob", "secret">> }

ServerMessages ==
    { [msg |-> "connected", session |-> x] : x \in {"s1"} }
    \cup { [msg |-> "failed", version |-> x] : x \in {"1"} }
    \cup { [msg |-> t, id |-> x] : t \in {"ping", "pong"}, x \in OptStrings }
    \cup { [msg |-> "result", id |-> i, result |-> r, error |-> e] :
              i \in Strings, r \in OptValues, e \in OptValues }
    \cup { [msg |-> "nosub", id |-> i, error |-> e] : i \in Strings, e \in OptValues }
    \cup { [msg |-> "updated", methods |-> x] : x \in {<<>>, <<Str42>>} }
    \cup { [msg |-> "added", collection |-> Sub1, id |-> i, fields |-> x] :
              i \in Strings, x \in OptValues }
    \cup { [msg |-> "changed", collection |-> Sub1, id |-> i, fields |-> x, cleared |-> c] :
              i \in Strings, x \in OptValues, c \in OptStringVecs }
    \cup { [msg |-> "removed", collection |-> Sub1, id |-> i] : i \in Strings }
    \cup { [msg |-> "ready", subs |-> x] : x \in {<<>>, <<Sub1>>} }
    \cup { [msg |-> "addedBefore", collection |-> Sub1, id |-> i, fields |-> x, before |-> b] :
              i \in Strings, x \in OptValues, b \in OptStrings }
    \cup { [msg |-> "movedBefore", before |-> b] : b \in OptStrings }

ClientMessages ==
    { [msg |-> "connect", version |-> "1", support |-> <<"1">>, session |-> x] :
          x \in OptStrings }
    \cup { [msg |-> t, id |-> x] : t \in {"ping", "pong"}, x \in OptStrings }
    \cup { [msg |-> "method", id |-> i, method |-> "login", params |-> p] :
              i \in Strings, p \in ParamVecs }
    \cup { [msg |-> "sub", id |-> i, name |-> "feed", params |-> p] :
              i \in Strings, p \in ParamVecs }
    \cup { [msg |-> "unsub", id |-> i] : i \in Strings }

Responses ==
    { [id |-> i, result |-> r, error |-> e] : i \in Strings, r \in OptValues, e \in OptValues }

Timestamps == { [millis |-> x] : x \in { None, Some(<<"1", "2", "9">>) } }

Values(ty) ==
    CASE ty = "server" -> ServerMessages
      [] ty = "client" -> ClientMessages
      [] ty = "response" -> Responses
      [] OTHER -> Timestamps

Types == { "server", "client", "response", "timestamp" }

\* let serialized = serde_json::to_string(msg).unwrap()
CodecEncode(ty, m) ==
    /\ codec.st \in {"idle", "decoded"}
    /\ codec' = [st |-> "encoded", ty |-> ty, m |-> m, wire |-> Encode(ty, m)]
    /\ UNCHANGED << pending, slabVars, actorVars >>

\* let deserialized: M = serde_json::from_str(..)
CodecDecode ==
    /\ codec.st = "encoded"
    /\ codec' = [st |-> "decoded", ty |-> codec.ty, m |-> codec.m, wire |-> codec.wire,
                 back |-> Decode(codec.ty, codec.wire)]
    /\ UNCHANGED << pending, slabVars, actorVars >>

CodecInit ==
    /\ pending = SlabNew
    /\ live = <<>>
    /\ removed = {}
    /\ last = NoOp
    /\ NoActor

CodecNext ==
    \/ \E ty \in Types : \E m \in Values(ty) : CodecEncode(ty, m)
    \/ CodecDecode

CodecSpec == CodecInit /\ [][CodecNext]_vars

\* C11 (as claimed): decoding the encoding of a message gives back a value
\* equal to the message, for every variant and every value of its fields, an
\* Option<Value> holding an explicit null included.
C11_RoundTrip ==
    codec.st = "decoded" => codec.back = Some(codec.m)

\* the Option fields of the message that are None
AbsentFields == { f \in OptionOf(codec.ty, codec.m) : codec.m[f] = None }

\* C13 (as claimed): an optional field that is absent is left out of the
\* encoded object, and is never written as null.
C13_AbsentOmitted ==
    codec.st = "encoded" =>
        \A f \in AbsentFields : WireName(f) \notin DOMAIN codec.wire

----------------------------------------------------------------------------
(* connection.rs: connect_with_websocket, the actor task, Handle, recv      *)

\* at most this many inputs in all: call / subscribe / unsubscribe
\* invocations, and inbound frames read once the actor runs
MaxInputs == 3

\* mpsc::channel::<ServerMessage>(16): the buffer, scaled down.  The one
\* sender may always queue a message; it then waits while more than the
\* buffer are queued.
DownBuffer == 1

\* (mutant) a receiver whose drop the sender never notices
NeverDropped == FALSE

\* the Connection, and with it down_rx, has been dropped
Dropped == dropped # None

\* enum Request
MethodReq(name, params, c) ==
    [req |-> "Method", name |-> name, params |-> params, result |-> c]

SubscribeReq(name, id, params) ==
    [req |-> "Subscribe", name |-> name, id |-> id, params |-> params]

UnsubscribeReq(id) == [req |-> "Unsubscribe", id |-> id]

\* the arguments callers pass: the n-th invocation, if it is a call
CallArgs(n) ==
    IF n % 2 = 1 THEN [name |-> "login", params |-> <<"bob", "secret">>]
    ELSE [name |-> "echo", params |-> <<>>]

SubArgs == { [id |-> Sub1, name |-> "feed", params |-> <<>>] }

\* what the actor has done
EvSend(m, ok) == [k |-> "send", m |-> m, ok |-> ok]

EvIn(item, ph) == [k |-> "in", item |-> item, ph |-> ph]

EvEnd(ph) == [k |-> "end", ph |-> ph]

EvTake(r) == [k |-> "take", r |-> r]

EvFwd(m) == [k |-> "fwd", m |-> m]

EvReply(c, r, got) == [k |-> "reply", c |-> c, r |-> r, got |-> got]

\* an invocation of call, subscribe or unsubscribe: the request it sends, the
\* state of its oneshot channel (a call's), what it has returned so far, and
\* whether the actor had returned before it was made, and whether it was made
\* through Connection::call (&mut self), by the task that also calls recv
Invocation(r, st, ret, dead, own) ==
    [r |-> r, st |-> st, val |-> None, ret |-> ret, dead |-> dead, own |-> own]

Init ==
    /\ pending = SlabNew
    /\ live = <<>>
    /\ removed = {}
    /\ last = NoOp
    /\ NoActor

\* the actor is running its loop (waiting in select!, or inside down_tx.send)
Running == pc \in {"ready", "forwarding"}

NumIn == Cardinality({ i \in 1..Len(trace) : trace[i].k = "in" /\ trace[i].ph = "ready" })

Inputs == Len(api) + NumIn

\* only the senders held in the slab, the queued requests being kept
DroppedRegistered(slab, q) ==
    { slab.entries[i].val : i \in { n \in 1..Len(slab.entries) : slab.entries[n].occ } }

\* the oneshot senders the task drops when it returns: those in the slab and
\* those of the requests still queued in up_rx
DroppedSenders(slab, q) ==
    { slab.entries[i].val : i \in { n \in 1..Len(slab.entries) : slab.entries[n].occ } }
        \cup { q[i].result : i \in { n \in 1..Len(q) : q[n].req = "Method" } }

CloseDropped(a, slab, q) ==
    [c \in 1..Len(a) |->
        IF c \in DroppedSenders(slab, q) /\ a[c].st = "open"
        THEN [a[c] EXCEPT !.st = "closed"] ELSE a[c]]

\* (mutant) an actor that goes on after a failure
ExitKeepsRunning(tr, slab, a) ==
    /\ pc' = "ready"
    /\ trace' = tr
    /\ pending' = slab
    /\ upq' = upq
    /\ api' = a

\* the task returns Err: pending, up_rx, down_tx, ws_up and ws_down are dropped
Exit(tr, slab, a) ==
    /\ pc' = "terminated"
    /\ trace' = tr
    /\ pending' = SlabNew
    /\ upq' = <<>>
    /\ api' = CloseDropped(a, slab, upq)

\* ws_up.send(connect_msg).await?
Connect ==
    /\ pc = "connect"
    /\ \E ok \in BOOLEAN :
          /\ trace' = Append(trace, EvSend(ConnectMsg, ok))
          /\ pc' = IF ok THEN "hs1" ELSE "failed"
    /\ UNCHANGED << pending, slabVars, codec, dropped, clones, upq, downq, recvd, ended, api >>

\* a handshake that consumes a single frame
AfterHandshakeOneFrame(p) == "ready"

\* after a handshake frame: the second one makes the Connection
AfterHandshake(p) == IF p = "hs1" THEN "hs2" ELSE "ready"

\* ws_down.next().await.ok_or(..)? with a frame, whatever it is
Handshake(item) ==
    /\ pc \in {"hs1", "hs2"}
    /\ trace' = Append(trace, EvIn(item, "handshake"))
    /\ pc' = AfterHandshake(pc)
    /\ UNCHANGED << pending, slabVars, codec, dropped, clones, upq, downq, recvd, ended, api >>

\* ws_down.next().await.ok_or(..)? at the end of the stream
HandshakeEnd ==
    /\ pc \in {"hs1", "hs2"}
    /\ trace' = Append(trace, EvEnd("handshake"))
    /\ pc' = "failed"
    /\ UNCHANGED << pending, slabVars, codec, dropped, clones, upq, downq, recvd, ended, api >>

\* the message is one the actor forwards to the consumer
IsForwarded(m) == m["msg"] \notin {"ping", "result"}

\* a channel that puts the newest message first
ChannelPushFront(q, m) == <<m>> \o q

\* mpsc: a message is added at the back
ChannelPush(q, m) == Append(q, m)

\* a receiver that reads the newest message
ChannelBack(q) == q[Len(q)]

\* mpsc: the receiver takes the message at the front
ChannelFront(q) == Head(q)

\* msg = ws_down.next(): a frame that does not decode
InboundBad(item) ==
    /\ pc = "ready" /\ Inputs < MaxInputs
    /\ DecodeItem(item) = None
    /\ Exit(Append(trace, EvIn(item, "ready")), pending, api)
    /\ UNCHANGED << slabVars, codec, dropped, clones, downq, recvd, ended >>

\* msg = ws_down.next(): None
InboundEnd ==
    /\ pc = "ready"
    /\ Exit(Append(trace, EvEnd("ready")), pending, api)
    /\ UNCHANGED << slabVars, codec, dropped, clones, downq, recvd, ended >>

\* ServerMessage::Ping { id } => ws_up.send(ClientMessage::Pong { id }).await?
InboundPing(item) ==
    /\ pc = "ready" /\ Inputs < MaxInputs
    /\ DecodeItem(item) # None
    /\ DecodeItem(item)[1]["msg"] = "ping"
    /\ \E ok \in BOOLEAN :
          LET tr == trace \o << EvIn(item, "ready"),
                                EvSend(PongMsg(DecodeItem(item)[1]["id"]), ok) >>
          IN  IF ok
              THEN /\ trace' = tr
                   /\ UNCHANGED << pc, pending, upq, api >>
              ELSE Exit(tr, pending, api)
    /\ UNCHANGED << slabVars, codec, dropped, clones, downq, recvd, ended >>

\* let _ = chan.send(v): the value reaches the caller if rx is still there,
\* and is dropped otherwise
OneshotSend(a, c, v) ==
    IF a[c].st = "open" THEN [a EXCEPT ![c].st = "value", ![c].val = Some(v)] ELSE a

\* ServerMessage::Result(r) => pending.remove(&r.id), chan.send(r.into())
InboundResult(item) ==
    /\ pc = "ready" /\ Inputs < MaxInputs
    /\ DecodeItem(item) # None
    /\ DecodeItem(item)[1]["msg"] = "result"
    /\ LET r == DecodeItem(item)[1]
           chan == SlabRemoveRet(pending, r["id"])
       IN  IF chan # None
           THEN LET c == chan[1]
                    got == api[c].st = "open"
                IN  /\ pending' = SlabRemove(pending, r["id"])
                    /\ api' = OneshotSend(api, c, IntoMethodResult(r))
                    /\ trace' = trace \o << EvIn(item, "ready"),
                                            EvReply(c, IntoMethodResult(r), got) >>
                    /\ UNCHANGED << pc, upq >>
           ELSE Exit(Append(trace, EvIn(item, "ready")), pending, api)
    /\ UNCHANGED << slabVars, codec, dropped, clones, downq, recvd, ended >>

\* (mutant) a sender that never waits for room
AfterForwardNoWait(q) == "ready"

\* down_tx.send(other).await with q queued after the message was added: the
\* sender waits while more than the buffer are queued
AfterForward(q) == IF Len(q) > DownBuffer THEN "forwarding" ELSE "ready"

\* other => down_tx.send(other).await?  The send fails at once when the
\* receiver is gone; otherwise the message is queued and the actor waits in
\* the send while more than the buffer are queued.
InboundOther(item) ==
    /\ pc = "ready" /\ Inputs < MaxInputs
    /\ DecodeItem(item) # None
    /\ IsForwarded(DecodeItem(item)[1])
    /\ IF Dropped
       THEN /\ Exit(Append(trace, EvIn(item, "ready")), pending, api)
            /\ UNCHANGED downq
       ELSE /\ downq' = ChannelPush(downq, DecodeItem(item)[1])
            /\ trace' = trace \o << EvIn(item, "ready"), EvFwd(DecodeItem(item)[1]) >>
            /\ pc' = AfterForward(downq')
            /\ UNCHANGED << pending, upq, api >>
    /\ UNCHANGED << slabVars, codec, dropped, clones, recvd, ended >>

\* msg = up_rx.next() once every Handle is dropped and no request is queued:
\* None, "end of method stream"
RequestsEnd ==
    /\ pc = "ready"
    /\ upq = <<>>
    /\ Dropped /\ ~ clones
    /\ Exit(Append(trace, EvEnd("requests")), pending, api)
    /\ UNCHANGED << slabVars, codec, dropped, clones, downq, recvd, ended >>

\* the ClientMessage the actor builds for a request, id being the token of
\* pending.insert for a Method
FrameFor(r, id) ==
    IF r.req = "Method" THEN MethodMsg(id, r.name, r.params)
    ELSE IF r.req = "Subscribe" THEN SubMsg(r.id, r.name, r.params)
    ELSE UnsubMsg(r.id)

\* msg = up_rx.next(): the request at the front of the channel
TakeRequest ==
    /\ pc = "ready"
    /\ upq # <<>>
    /\ LET r == ChannelFront(upq)
       IN  \E label \in (IF r.req = "Method" THEN Labels ELSE {None}), ok \in BOOLEAN :
              LET id == InsertToken(pending, label)
                  slab == IF r.req = "Method" THEN InsertSlab(pending, label, r.result)
                          ELSE pending
                  tr == trace \o << EvTake(r), EvSend(FrameFor(r, id), ok) >>
              IN  IF ok
                  THEN /\ pending' = slab
                       /\ trace' = tr
                       /\ upq' = Tail(upq)
                       /\ UNCHANGED << pc, api >>
                  ELSE Exit(tr, slab, api)
    /\ UNCHANGED << slabVars, codec, dropped, clones, downq, recvd, ended >>

\* a Handle can be used: a clone, or the Connection's own through
\* Connection::subscribe / unsubscribe / call while the Connection is free
HandleUsable == clones \/ (~ Dropped /\ ~ (\E c \in 1..Len(api) : api[c].own /\ api[c].ret = "waiting"))

\* the task that owns the Connection is inside Connection::call
OwnerWaiting == \E c \in 1..Len(api) : api[c].own /\ api[c].ret = "waiting"

\* Handle::call, directly or through Connection::call: the request is queued,
\* the caller then awaits rx
Call(a, own) ==
    /\ Running
    /\ Inputs < MaxInputs
    /\ IF own THEN ~ Dropped /\ ~ OwnerWaiting ELSE clones
    /\ LET r == MethodReq(a.name, a.params, Len(api) + 1)
       IN  /\ api' = Append(api, Invocation(r, "open", "waiting", FALSE, own))
           /\ upq' = ChannelPush(upq, r)
    /\ UNCHANGED << pending, slabVars, codec, dropped, clones, pc, trace, downq, recvd, ended >>

\* Handle::subscribe
Subscribe(a) ==
    /\ Running
    /\ HandleUsable
    /\ Inputs < MaxInputs
    /\ LET r == SubscribeReq(a.name, a.id, a.params)
       IN  /\ api' = Append(api, Invocation(r, "none", "ok", FALSE, FALSE))
           /\ upq' = ChannelPush(upq, r)
    /\ UNCHANGED << pending, slabVars, codec, dropped, clones, pc, trace, downq, recvd, ended >>

\* Handle::unsubscribe
Unsubscribe(id) ==
    /\ Running
    /\ HandleUsable
    /\ Inputs < MaxInputs
    /\ LET r == UnsubscribeReq(id)
       IN  /\ api' = Append(api, Invocation(r, "none", "ok", FALSE, FALSE))
           /\ upq' = ChannelPush(upq, r)
    /\ UNCHANGED << pending, slabVars, codec, dropped, clones, pc, trace, downq, recvd, ended >>

\* call / subscribe / unsubscribe once the actor has returned:
\* self.rpc.send(request).await? fails, up_rx being dropped
SendRefused(r) ==
    /\ pc = "terminated"
    /\ HandleUsable
    /\ Inputs < MaxInputs
    /\ api' = Append(api, Invocation(r, "none", "send_error", TRUE, FALSE))
    /\ UNCHANGED << pending, slabVars, codec, dropped, clones, pc, trace, upq, downq, recvd, ended >>

\* Ok(rx.await?): the call returns the reply, or an error when tx was dropped
Return(c) ==
    /\ c \in 1..Len(api)
    /\ api[c].ret = "waiting"
    /\ api[c].st \in {"value", "closed"}
    /\ api' = [api EXCEPT ![c].ret = IF api[c].st = "value" THEN "reply" ELSE "canceled"]
    /\ UNCHANGED << pending, slabVars, codec, dropped, clones, pc, trace, upq, downq, recvd, ended >>

\* Connection::recv with an event queued; taking it wakes the waiting sender
Recv ==
    /\ ~ Dropped
    /\ ~ OwnerWaiting
    /\ downq # <<>>
    /\ recvd' = Append(recvd, ChannelFront(downq))
    /\ downq' = Tail(downq)
    /\ pc' = IF pc = "forwarding" THEN "ready" ELSE pc
    /\ UNCHANGED << pending, slabVars, codec, dropped, clones, trace, upq, ended, api >>

\* Connection::recv with nothing queued and down_tx dropped: None
RecvNone ==
    /\ ~ Dropped
    /\ ~ OwnerWaiting
    /\ pc = "terminated"
    /\ downq = <<>>
    /\ ~ ended
    /\ ended' = TRUE
    /\ UNCHANGED << pending, slabVars, codec, dropped, clones, pc, trace, upq, downq, recvd, api >>

\* the caller drops the future of Handle::call while it waits: rx is dropped
Abandon(c) ==
    /\ c \in 1..Len(api)
    /\ api[c].ret = "waiting"
    /\ api' = [api EXCEPT ![c].ret = "abandoned",
                          ![c].st = IF api[c].st = "open" THEN "abandoned" ELSE api[c].st]
    /\ UNCHANGED << pending, slabVars, codec, dropped, clones, pc, trace, upq, downq, recvd,
                    ended >>

\* Connection::handle: self.handle.clone()
CloneHandle ==
    /\ pc \in {"ready", "forwarding", "terminated"}
    /\ ~ Dropped /\ ~ OwnerWaiting
    /\ ~ clones
    /\ clones' = TRUE
    /\ UNCHANGED << pending, slabVars, codec, dropped, pc, trace, upq, downq, recvd, ended,
                    api >>

\* the last clone of the Handle is dropped; none is borrowed by a waiting call
DropClones ==
    /\ clones
    /\ ~ \E c \in 1..Len(api) : ~ api[c].own /\ api[c].ret = "waiting"
    /\ clones' = FALSE
    /\ UNCHANGED << pending, slabVars, codec, dropped, pc, trace, upq, downq, recvd, ended,
                    api >>

\* the Connection is dropped: down_rx is closed and drained, which lets a
\* sender waiting in down_tx.send complete; its Handle goes with it
DropConnection ==
    /\ pc \in {"ready", "forwarding", "terminated"}
    /\ ~ Dropped /\ ~ OwnerWaiting
    /\ dropped' = Some(Len(trace))
    /\ downq' = <<>>
    /\ pc' = IF pc = "forwarding" THEN "ready" ELSE pc
    /\ UNCHANGED << pending, slabVars, codec, clones, trace, upq, recvd, ended, api >>

\* ---- the frames the transport delivers ----

PingItems ==
    { TextItem([msg |-> "ping"]), TextItem([msg |-> "ping", id |-> Str42]) }

EventItems ==
    { TextItem([msg |-> "ready", subs |-> <<Sub1>>]),
      TextItem([msg |-> "pong"]) }

BadItems == { NotJsonItem, BinaryItem, ErrorItem, TextItem([msg |-> "result", result |-> JOk]) }

\* the correlation ids of the Method frames sent so far
SentIds ==
    { trace[i].m.id : i \in { n \in 1..Len(trace) :
                                 trace[n].k = "send" /\ trace[n].m.msg = "method" } }

\* a sent id with its index written with a sign
Signed(t) == <<"+">> \o t

\* results for the ids sent, and for ids that were never sent
ResultItems ==
    { TextItem([msg |-> "result", id |-> id, result |-> JOk]) :
          id \in SentIds \cup { Signed(t) : t \in SentIds } \cup {Ghost} }
    \cup { TextItem([msg |-> "result", id |-> id, error |-> JBoom]) : id \in SentIds }
    \cup { TextItem([msg |-> "result", id |-> id, result |-> JOk, error |-> JBoom]) :
              id \in SentIds }
    \cup { TextItem([msg |-> "result", id |-> id]) : id \in SentIds }

\* the DDP server's greeting
Greeting(p) ==
    IF p = "hs1" THEN TextItem([server_id |-> "0"])
    ELSE TextItem([msg |-> "connected", session |-> "s1"])

Next ==
    \/ Connect
    \/ Handshake(Greeting(pc))
    \/ HandshakeEnd
    \/ \E item \in BadItems : InboundBad(item)
    \/ InboundEnd
    \/ \E item \in PingItems : InboundPing(item)
    \/ \E item \in ResultItems : InboundResult(item)
    \/ \E item \in EventItems : InboundOther(item)
    \/ TakeRequest
    \/ \E own \in BOOLEAN : Call(CallArgs(Len(api) + 1), own)
    \/ \E a \in SubArgs : Subscribe(a)
    \/ Unsubscribe(Sub1)
    \/ \E r \in { MethodReq(CallArgs(Len(api) + 1).name, CallArgs(Len(api) + 1).params,
                            Len(api) + 1),
                  SubscribeReq("feed", Sub1, <<>>), UnsubscribeReq(Sub1) } : SendRefused(r)
    \/ \E c \in 1..MaxInputs : Return(c)
    \/ Recv
    \/ RecvNone
    \/ CloneHandle

\* the Connection and the Handles are kept, and no caller gives up waiting
Spec == Init /\ [][Next]_vars

\* a waiting caller is polled again once its channel has a value or is closed,
\* and the consumer keeps calling recv
FairSpec ==
    /\ Spec
    /\ WF_vars(\E c \in 1..MaxInputs : Return(c))
    /\ WF_vars(Recv)
    /\ WF_vars(RecvNone)

\* moreover the actor task is scheduled, and the server closes the transport
\* at some time when the actor is reading it
LiveSpec ==
    /\ FairSpec
    /\ WF_vars(TakeRequest)
    /\ WF_vars(InboundEnd)

\* moreover callers may abandon their calls, and the Connection and the
\* Handles may be dropped
FullNext ==
    \/ Next
    \/ RequestsEnd
    \/ \E c \in 1..MaxInputs : Abandon(c)
    \/ DropClones
    \/ DropConnection

FullSpec == Init /\ [][FullNext]_vars

\* the actor task is polled again once up_rx has ended
FullFairSpec == FullSpec /\ WF_vars(RequestsEnd)

\* every frame the transport can deliver
WireItems ==
    PingItems \cup EventItems
        \cup { NotJsonItem, BinaryItem, ErrorItem,
               TextItem([server_id |-> "0"]),
               TextItem([msg |-> "connected", session |-> "s1"]),
               TextItem([msg |-> "failed", version |-> "1"]),
               TextItem([msg |-> "result", id |-> Ghost, result |-> JOk]) }

\* the handshake with any two frames, then some traffic
HsNext ==
    \/ Connect
    \/ \E item \in WireItems : Handshake(item)
    \/ HandshakeEnd
    \/ InboundEnd
    \/ \E item \in PingItems : InboundPing(item)
    \/ TakeRequest
    \/ \E a \in SubArgs : Subscribe(a)

HsSpec == Init /\ [][HsNext]_vars

----------------------------------------------------------------------------
(* Claims about the connection actor *)

Steps == 1..Len(trace)

\* the actor, running, read a frame at step i
ReadIn(i) == trace[i].k = "in" /\ trace[i].ph = "ready"

\* the frame read at step i is a JSON object whose msg is tag
ReadTag(i, tag) ==
    /\ ReadIn(i)
    /\ trace[i].item.ws = "text" /\ "json" \in DOMAIN trace[i].item
    /\ "msg" \in DOMAIN trace[i].item.json
    /\ trace[i].item.json.msg = tag

\* a field of the JSON object read at step i, as an Option
JsonField(i, f) ==
    IF f \in DOMAIN trace[i].item.json THEN Some(trace[i].item.json[f]) ELSE None

\* the step at which the actor took the Method request of call c
TakenAt(c) ==
    { i \in Steps : trace[i].k = "take" /\ trace[i].r.req = "Method" /\ trace[i].r.result = c }

\* the correlation ids the actor put in the Method frame of call c
MethodIds(c) == { trace[i + 1].m.id : i \in TakenAt(c) }

\* the payload a Result frame carries for its caller
Payload(i) ==
    IF "error" \in DOMAIN trace[i].item.json
    THEN [ok |-> FALSE, v |-> trace[i].item.json.error]
    ELSE [ok |-> TRUE,
          v |-> IF "result" \in DOMAIN trace[i].item.json
                THEN trace[i].item.json.result ELSE JNull]

\* C1 (as claimed): a call's reply channel is fulfilled at most once, and only
\* with the payload of a Result whose id equals the correlation id of that
\* call's own Method frame; one Result goes to exactly one waiter, and
\* handling it removes the slot.
C1_ReplyMatchesOwnId ==
    /\ \A i \in Steps :
          trace[i].k = "reply" =>
              /\ i > 1 /\ ReadTag(i - 1, "result")
              /\ "id" \in DOMAIN trace[i - 1].item.json
              /\ trace[i - 1].item.json.id \in MethodIds(trace[i].c)
              /\ trace[i].r = Payload(i - 1)
              /\ \A j \in Steps : (trace[j].k = "reply" /\ trace[j].c = trace[i].c) => j = i
              /\ (i = Len(trace) /\ pc # "terminated")
                    => SlabGet(pending, trace[i - 1].item.json.id) = None
    /\ \A c \in 1..Len(api) :
          api[c].st = "value" =>
              \E i \in Steps : /\ trace[i].k = "reply" /\ trace[i].c = c
                               /\ api[c].val = Some(trace[i].r)

\* the correlation ids of the calls pending before step i: their Method frame
\* was sent and no Result has been delivered for them
PendingIdsBefore(i) ==
    UNION { MethodIds(c) :
              c \in { d \in 1..Len(api) :
                        /\ \E t \in TakenAt(d) : t < i
                        /\ ~ \E j \in 1..(i - 1) : trace[j].k = "reply" /\ trace[j].c = d } }

\* C2 (as claimed): a Result whose id matches no currently pending call
\* terminates the actor: it is the last thing the actor does.
C2_UnknownResultTerminates ==
    \A i \in Steps :
        ( /\ ReadTag(i, "result")
          /\ "id" \in DOMAIN trace[i].item.json
          /\ trace[i].item.json.id \notin PendingIdsBefore(i) )
        => (i = Len(trace) /\ pc = "terminated")

\* C6: every Ping handled in Ready is answered at once by exactly one Pong
\* with the same optional id, before anything else is handled; it is never
\* forwarded to the consumer and never changes the slab.
C6_PingState ==
    /\ \A i \in Steps :
          ReadTag(i, "ping") =>
              /\ i < Len(trace)
              /\ trace[i + 1].k = "send"
              /\ trace[i + 1].m.msg = "pong"
              /\ trace[i + 1].m.id = JsonField(i, "id")
    /\ \A i \in Steps :
          (trace[i].k = "send" /\ trace[i].m.msg = "pong") => (i > 1 /\ ReadTag(i - 1, "ping"))
    /\ \A i \in Steps : trace[i].k = "fwd" => trace[i].m["msg"] # "ping"
    /\ \A i \in 1..Len(downq) : downq[i]["msg"] # "ping"
    /\ \A i \in 1..Len(recvd) : recvd[i]["msg"] # "ping"

\* the step being taken reads a Ping and leaves the actor running
PingStep ==
    /\ Len(trace') = Len(trace) + 2
    /\ trace'[Len(trace) + 1].k = "in"
    /\ trace'[Len(trace) + 1].item \in PingItems
    /\ pc' = "ready"

C6_KeepAlive ==
    /\ [] C6_PingState
    /\ [][PingStep => (pending' = pending /\ downq' = downq /\ api' = api)]_vars

\* a Ping with an id was answered while a call was pending, and the actor went on
C6_Witness ==
    \E i \in Steps :
        /\ ReadTag(i, "ping")
        /\ JsonField(i, "id") = Some(Str42)
        /\ i + 1 < Len(trace)
        /\ trace[i + 1].ok
        /\ \E j \in 1..(i - 1) : trace[j].k = "take" /\ trace[j].r.req = "Method"

\* the Connection exists: connect_with_websocket has returned Ok
Connected == pc \in {"ready", "forwarding", "terminated"}

\* C7: Connect{version "1", support ["1"], no session} is the first outbound
\* frame; then exactly two inbound frames are consumed, whatever they are,
\* with nothing answered, forwarded or matched, before Ready and before any
\* request is accepted; if the stream ends first, connecting fails for good.
C7_HandshakeState ==
    /\ Len(trace) >= 1 =>
          /\ trace[1].k = "send"
          /\ trace[1].m = [msg |-> "connect", version |-> "1", support |-> <<"1">>,
                           session |-> <<>>]
    /\ \A i \in Steps : (trace[i].k = "send" /\ trace[i].m.msg = "connect") => i = 1
    /\ \A i \in Steps : (trace[i].k \in {"in", "end"} /\ trace[i].ph = "handshake")
                            => (i \in {2, 3} /\ trace[1].ok)
    /\ Connected =>
          /\ Len(trace) >= 3
          /\ trace[2].k = "in" /\ trace[2].ph = "handshake"
          /\ trace[3].k = "in" /\ trace[3].ph = "handshake"
    /\ ~ Connected =>
          /\ Len(trace) <= 3
          /\ api = <<>> /\ upq = <<>> /\ downq = <<>> /\ recvd = <<>>
          /\ pending = SlabNew
    /\ (Connected /\ Len(trace) = 3) =>
          (pc = "ready" /\ downq \o recvd = <<>> /\ pending = SlabNew)
    /\ \A i \in Steps : (trace[i].k = "end" /\ trace[i].ph = "handshake")
                            => (i = Len(trace) /\ pc = "failed")

C7_Handshake ==
    /\ [] C7_HandshakeState
    /\ [][pc = "failed" => pc' = "failed"]_vars

\* Ready was reached over a Ping and a Result, and a request was then sent
C7_Witness ==
    /\ Connected
    /\ trace[2].item = TextItem([msg |-> "ping"])
    /\ trace[3].item = TextItem([msg |-> "result", id |-> Ghost, result |-> JOk])
    /\ Len(trace) >= 5
    /\ trace[4].k = "take"

\* the requests of the invocations made while the actor ran, in order
Submitted ==
    LET alive == SelectSeq(api, LAMBDA a : ~ a.dead)
    IN  [n \in 1..Len(alive) |-> alive[n].r]

\* the requests the actor has taken, in order
Taken ==
    LET takes == SelectSeq(trace, LAMBDA e : e.k = "take")
    IN  [n \in 1..Len(takes) |-> takes[n].r]

\* the frame is the one the request asks for
FrameOf(m, r) ==
    \/ r.req = "Method" /\ m.msg = "method" /\ m.method = r.name /\ m.params = r.params
    \/ /\ r.req = "Subscribe" /\ m.msg = "sub"
       /\ m.id = r.id /\ m.name = r.name /\ m.params = r.params
    \/ r.req = "Unsubscribe" /\ m.msg = "unsub" /\ m.id = r.id

\* C8: the Method, Sub and Unsub frames are sent in the order in which their
\* requests were taken from the channel, which is the order in which they were
\* issued, one frame per request, each sent before anything else is taken.
C8_OutboundFifo ==
    /\ \A i \in Steps :
          trace[i].k = "take" =>
              /\ i < Len(trace)
              /\ trace[i + 1].k = "send"
              /\ FrameOf(trace[i + 1].m, trace[i].r)
    /\ \A i \in Steps :
          (trace[i].k = "send" /\ trace[i].m.msg \in {"method", "sub", "unsub"})
              => (i > 1 /\ trace[i - 1].k = "take")
    /\ Len(Taken) <= Len(Submitted)
    /\ \A n \in 1..Len(Taken) : Taken[n] = Submitted[n]
    /\ pc # "terminated" => Taken \o upq = Submitted

\* two calls were issued before either was taken, and both frames were sent
C8_Witness ==
    /\ Len(api) >= 2
    /\ api[1].r.req = "Method" /\ api[2].r.req = "Method"
    /\ \E i, j \in Steps :
          /\ i < j
          /\ trace[i].k = "send" /\ trace[i].m.msg = "method" /\ trace[i].m.method = "login"
          /\ trace[j].k = "send" /\ trace[j].m.msg = "method" /\ trace[j].m.method = "echo"
          /\ trace[j].ok

\* the messages of the frames handled in Ready that are neither Ping nor Result
Surfaced ==
    LET evs == SelectSeq(trace, LAMBDA e :
                   /\ e.k = "in" /\ e.ph = "ready"
                   /\ DecodeItem(e.item) # None
                   /\ DecodeItem(e.item)[1]["msg"] \notin {"ping", "result"})
    IN  [n \in 1..Len(evs) |-> DecodeItem(evs[n].item)[1]]

\* C9: what recv has returned, followed by what is still queued, is exactly
\* the sequence of frames handled in Ready that are neither Ping nor Result,
\* unchanged and in arrival order.
C9_EventsInOrder == recvd \o downq = Surfaced

\* Ready{subs: ["sub1"]} and a Pong were received in the order they arrived,
\* the actor having waited for the consumer in between
C9_Witness ==
    /\ Len(recvd) = 2
    /\ recvd[1]["msg"] = "pong"
    /\ recvd[2] = [msg |-> "ready", subs |-> <<Sub1>>]
    /\ \E i \in Steps : trace[i].k = "take" /\ trace[i].r.req = "Subscribe"

\* C10: when the actor has terminated, no call is left waiting on an open
\* channel (pending calls, registered or still queued, return an error),
\* later invocations fail, recv returns what was buffered and then the end of
\* the stream, and the actor never runs again.
C10_TerminatedState ==
    /\ pc = "terminated" =>
          /\ upq = <<>>
          /\ \A c \in 1..Len(api) : api[c].st # "open"
          /\ \A c \in 1..Len(api) :
                (api[c].r.req = "Method" /\ api[c].st = "closed")
                    => api[c].ret \in {"waiting", "canceled"}
    /\ \A c \in 1..Len(api) : api[c].dead <=> api[c].ret = "send_error"
    /\ \A c \in 1..Len(api) : api[c].ret = "canceled" => pc = "terminated"
    /\ ended => (pc = "terminated" /\ downq = <<>> /\ recvd = Surfaced)

AllReturned == \A c \in 1..Len(api) : api[c].ret # "waiting"

C10_Termination ==
    /\ [] C10_TerminatedState
    /\ [][pc = "terminated" => pc' = "terminated"]_vars
    /\ (pc = "terminated") ~> AllReturned
    /\ (pc = "terminated") ~> ended

\* the actor terminated with one call registered and one still queued; both
\* returned an error, a later invocation failed, and recv ended
C10_Witness ==
    /\ pc = "terminated"
    /\ Len(api) = 3
    /\ api[1].ret = "canceled" /\ TakenAt(1) # {}
    /\ api[2].ret = "canceled" /\ TakenAt(2) = {}
    /\ api[3].ret = "send_error"
    /\ ended

\* the MethodResponse decoded from the frame read at step i
ResponseAt(i) == DecodeItem(trace[i].item)[1]

\* the step being taken delivers a Result to a caller
ReplyStep ==
    /\ Len(trace') = Len(trace) + 2
    /\ trace'[Len(trace) + 2].k = "reply"

\* C12: a delivered Result is a failure carrying the error payload whenever
\* the MethodResponse has an error (also when it has a result too), and
\* otherwise a success carrying the result, or JSON null when there is none;
\* delivering it, an application error included, leaves the actor running and
\* every other pending call as it was.
C12_OutcomeState ==
    \A i \in Steps :
        (trace[i].k = "reply" /\ i > 1 /\ ReadTag(i - 1, "result")) =>
            LET r == ResponseAt(i - 1)
            IN  /\ IsSome(r["error"]) => trace[i].r = [ok |-> FALSE, v |-> r["error"][1]]
                /\ (~ IsSome(r["error"]) /\ IsSome(r["result"]))
                      => trace[i].r = [ok |-> TRUE, v |-> r["result"][1]]
                /\ (~ IsSome(r["error"]) /\ ~ IsSome(r["result"]))
                      => trace[i].r = [ok |-> TRUE, v |-> JNull]
                /\ (api[trace[i].c].st = "value" /\ trace[i].got)
                      => api[trace[i].c].val = Some(trace[i].r)

C12_CallOutcome ==
    /\ [] C12_OutcomeState
    /\ [][ReplyStep =>
            LET c == trace'[Len(trace')].c
            IN  /\ pc = "ready" /\ pc' = "ready"
                /\ upq' = upq /\ downq' = downq
                /\ Len(api') = Len(api)
                /\ \A d \in 1..Len(api) : d # c => api'[d] = api[d]
                /\ Len(pending'.entries) = Len(pending.entries)
                /\ \A n \in 1..Len(pending.entries) :
                      (pending.entries[n].occ /\ pending.entries[n].val # c)
                          => pending'.entries[n] = pending.entries[n]]_vars

\* a response with both an error and a result was delivered as a failure
\* while another call stayed pending, and the actor is still running
C12_Witness ==
    /\ pc = "ready"
    /\ \E i \in Steps :
          /\ trace[i].k = "reply" /\ trace[i].c = 1
          /\ trace[i].r = [ok |-> FALSE, v |-> JBoom]
          /\ IsSome(ResponseAt(i - 1)["result"])
    /\ Len(api) >= 2 /\ api[2].st = "open" /\ TakenAt(2) # {}
    /\ SlabGet(pending, CHOOSE id \in MethodIds(2) : TRUE) = Some(2)

\* C14 (as claimed): under a fair actor and a server that answers or closes,
\* every call eventually returns to its caller, also when the caller is the
\* task that owns the Connection and so does not call recv while it waits.
C14_CallsReturn ==
    \A c \in 1..MaxInputs :
        (Len(api) >= c /\ api[c].ret = "waiting") ~> (Len(api) >= c /\ api[c].ret # "waiting")

\* C15: when the inbound event channel is full the actor stays inside the
\* forwarding of the current event until the consumer receives an event or
\* the receiver is dropped; meanwhile it reads no frame, takes no request,
\* answers no Ping and delivers no Result, and no queued event is dropped or
\* overwritten.
C15_FullState ==
    /\ Len(downq) <= DownBuffer + 1
    /\ (pc = "ready" /\ ~ Dropped) => Len(downq) <= DownBuffer
    /\ pc = "forwarding" =>
          /\ ~ Dropped
          /\ Len(downq) = DownBuffer + 1
          /\ trace[Len(trace)] = EvFwd(downq[Len(downq)])
    /\ ~ Dropped => recvd \o downq = Surfaced

C15_Backpressure ==
    /\ [] C15_FullState
    /\ [][pc = "forwarding" =>
            /\ trace' = trace
            /\ pending' = pending
            /\ Len(upq') >= Len(upq) /\ SubSeq(upq', 1, Len(upq)) = upq
            /\ \A c \in 1..Len(api) : api'[c].st = api[c].st \/ api'[c].st = "abandoned"
            /\ pc' = "forwarding" => (downq' = downq /\ recvd' = recvd)
            /\ pc' # "forwarding" =>
                  /\ pc' = "ready"
                  /\ \/ recvd' = Append(recvd, Head(downq)) /\ downq' = Tail(downq)
                     \/ dropped' # None /\ ~ Dropped]_vars

\* the actor waited in the forwarding of the second event, the consumer
\* received one, and the actor then answered a Ping
C15_Witness ==
    /\ Len(Surfaced) = DownBuffer + 1
    /\ Len(recvd) >= 1
    /\ ~ Dropped
    /\ \E i \in Steps :
          /\ trace[i].k = "fwd" /\ i + 2 <= Len(trace)
          /\ ReadTag(i + 1, "ping")
          /\ trace[i + 2].k = "send" /\ trace[i + 2].ok
          /\ Cardinality({ j \in 1..i : trace[j].k = "fwd" }) = DownBuffer + 1

\* the calls whose caller dropped the wait before a reply
Abandoned == { c \in 1..Len(api) : api[c].st = "abandoned" }

\* a Result carrying the correlation id of call c has been handled since the
\* Method frame of c was sent
AnsweredById(c) ==
    \E i \in Steps :
        /\ ReadTag(i, "result")
        /\ "id" \in DOMAIN trace[i].item.json
        /\ trace[i].item.json.id \in MethodIds(c)
        /\ \E t \in TakenAt(c) : t < i

\* C16 (as claimed): when a caller drops its wait before the reply, its
\* request and Method frame are not retracted and its slot stays occupied
\* until a Result with that id arrives or the actor terminates; the delivery
\* that then fails is discarded and the actor stays in Ready.
C16_AbandonedSlotKept ==
    /\ \A c \in Abandoned :
          pc # "terminated" =>
              /\ TakenAt(c) = {} => \E n \in 1..Len(upq) : upq[n] = api[c].r
              /\ (TakenAt(c) # {} /\ ~ AnsweredById(c)) =>
                    \A id \in MethodIds(c) : SlabGet(pending, id) = Some(c)
    /\ \A i \in Steps :
          (trace[i].k = "reply" /\ ~ trace[i].got) =>
              /\ trace[i].c \in Abandoned
              /\ api[trace[i].c].val = None
              /\ i = Len(trace) => pc = "ready"

\* what the actor did at step i is a fatal failure in Ready: the end of the
\* inbound stream, a frame that is a transport error, is not text or does not
\* decode, or an outbound send that failed
Fatal(i) ==
    \/ trace[i].k = "end" /\ trace[i].ph = "ready"
    \/ ReadIn(i) /\ DecodeItem(trace[i].item) = None
    \/ trace[i].k = "send" /\ i > 3 /\ ~ trace[i].ok

\* C17: in Ready, the end of the inbound stream, a transport error, a frame
\* that is not text or does not decode, and a failed outbound send each
\* terminate the actor: the offending frame gets no Pong, no forwarded event
\* and no reply, and nothing is processed afterwards.
C17_FatalState ==
    \A i \in Steps : Fatal(i) => (i = Len(trace) /\ pc = "terminated")

C17_FatalFailures ==
    /\ [] C17_FatalState
    /\ [][pc = "terminated" =>
            /\ pc' = "terminated"
            /\ trace' = trace /\ pending' = pending /\ upq' = upq
            /\ \A c \in 1..Len(api) : api'[c].st = api[c].st]_vars

\* a binary frame ended the actor while a call was registered
C17_Witness ==
    /\ pc = "terminated"
    /\ trace[Len(trace)] = EvIn(BinaryItem, "ready")
    /\ \E c \in 1..Len(api) : TakenAt(c) # {} /\ api[c].st = "closed"

\* C18 (as claimed): in Ready the occupied slab entries are exactly the reply
\* channels of the Method requests the actor has accepted and that no Result
\* has yet matched, each under the correlation id of its Method frame, and
\* these ids are pairwise distinct.
C18_PendingSet ==
    Running =>
        /\ { pending.entries[n].val : n \in OccupiedSlots }
              = { c \in 1..Len(api) : TakenAt(c) # {} /\ ~ AnsweredById(c) }
        /\ \A n \in OccupiedSlots : SlotId(n) \in MethodIds(pending.entries[n].val)
        /\ \A n1, n2 \in OccupiedSlots :
              n1 # n2 => /\ SlotId(n1) # SlotId(n2)
                         /\ pending.entries[n1].val # pending.entries[n2].val

\* the actor did step i after the Connection was dropped
AfterDrop(i) == dropped # None /\ i > dropped[1]

\* the step being taken drops the Connection
DropStep == dropped = None /\ dropped' # None

\* every Handle is gone and the request channel is empty
RequestsClosed == dropped # None /\ ~ clones /\ upq = <<>>

\* C19: dropping the Connection's event receiver does not by itself stop the
\* actor, which goes on serving the surviving Handle clones, answering Pings
\* and delivering Results; it terminates at the first frame it has to forward
\* to the dropped receiver, and it terminates once every Handle is dropped and
\* the request channel is closed, though the transport is still open.
C19_DropState ==
    /\ \A i \in Steps :
          (AfterDrop(i) /\ ReadIn(i) /\ DecodeItem(trace[i].item) # None) =>
              /\ IsForwarded(DecodeItem(trace[i].item)[1])
                    => (i = Len(trace) /\ pc = "terminated")
              /\ ReadTag(i, "ping")
                    => (i < Len(trace) /\ trace[i + 1].k = "send")
              /\ ReadTag(i, "result")
                    => \/ i < Len(trace) /\ trace[i + 1].k = "reply"
                       \/ i = Len(trace) /\ pc = "terminated"
    /\ \A i \in Steps : (AfterDrop(i) /\ trace[i].k = "take")
                            => (i < Len(trace) /\ trace[i + 1].k = "send")
    /\ \A i \in Steps : AfterDrop(i) => trace[i].k # "fwd"
    /\ \A i \in Steps :
          (trace[i].k = "end" /\ trace[i].ph = "requests") =>
              (i = Len(trace) /\ pc = "terminated" /\ RequestsClosed)

C19_Drops ==
    /\ [] C19_DropState
    /\ [][DropStep =>
            /\ pc \in {"ready", "forwarding"} => pc' = "ready"
            /\ pc = "terminated" => pc' = "terminated"
            /\ trace' = trace /\ pending' = pending /\ upq' = upq /\ api' = api]_vars
    /\ (pc = "ready" /\ RequestsClosed) ~> (pc = "terminated")

\* after the drop the actor took a clone's call, answered a Ping and delivered
\* the Result to the caller, and is still running
C19_Witness ==
    /\ pc = "ready"
    /\ dropped # None /\ clones
    /\ \E i, j, k \in Steps :
          /\ AfterDrop(i) /\ trace[i].k = "take" /\ trace[i].r.req = "Method"
          /\ AfterDrop(j) /\ ReadTag(j, "ping") /\ trace[j + 1].ok
          /\ AfterDrop(k) /\ trace[k].k = "reply" /\ trace[k].got

====
